---- MODULE Spec2Model ----
(***************************************************************************)
(* Task Management API (NestJS + TypeORM): Users and Tasks services, their *)
(* repositories, the password service and the Tasks controller, as a state *)
(* machine over the two tables.  One action per HTTP operation; an action  *)
(* is the whole handler (guard, validation pipe, service, repository).     *)
(***************************************************************************)
EXTENDS Naturals, Sequences, FiniteSets, TLC

VARIABLES
    users,      \* table "user":  id -> row [id, email, password, firstName, lastName]
    tasks,      \* table "task":  id -> row [id, title, description, userId]
    userSeq,    \* next value of the generated-id sequence of table "user"
    taskSeq,    \* next value of the generated-id sequence of table "task"
    tokens,     \* user ids for which a bearer token has been issued
    inflight,   \* requests suspended at an await between their read and their write
    last,       \* the last request handled, with its response
    log         \* the lines LoggingInterceptor wrote for that request, in order

vars == <<users, tasks, userSeq, taskSeq, tokens, inflight, last, log>>

----------------------------------------------------------------------------
(* Bounds of the model *)

MaxUsers == 2
MaxTasks == 2
MaxInflight == 2

UserIds == 1..MaxUsers
TaskIds == 1..MaxTasks
Slots   == 1..MaxInflight

(* Input values *)
Emails       == {"a@b.com", "c@d.com"}
BadEmail     == "not-an-email"
Plaintexts   == {"secret1", "hunter22"}
ShortPass    == "abc"
FirstNames   == {"Ann", "Bob"}
LastNames    == {"Doe"}
Titles       == {"Buy milk", "Pay rent"}
Descriptions == {"2% and whole"}
Salts        == {"saltA", "saltB"}

NoBody == [none |-> TRUE]

(* { ...a, ...b } *)
Spread(a, b) ==
    [k \in (DOMAIN a) \cup (DOMAIN b) |-> IF k \in DOMAIN b THEN b[k] ELSE a[k]]

(* the object without one property *)
Omit(a, key) == [k \in (DOMAIN a) \ {key} |-> a[k]]

(* the table without one row *)
Without(table, id) == [k \in (DOMAIN table) \ {id} |-> table[k]]

(* the table with one row written *)
Put(table, row) ==
    [k \in (DOMAIN table) \cup {row.id} |-> IF k = row.id THEN row ELSE table[k]]

Empty == [k \in {} |-> NoBody]

----------------------------------------------------------------------------
(* PasswordService *)

saltRounds == 10

(* bcrypt.hash: "$2b$" cost "$" salt digest; the digest is a one-way image  *)
(* of (salt, password), here the pair itself behind the prefix              *)
BcryptHash(password, salt) == "$2b$10$" \o salt \o "." \o password

(* bcrypt.compare: re-hash the password with the salt the hash carries *)
BcryptCompare(password, hashed) ==
    \E s \in Salts : hashed = BcryptHash(password, s)

(* the outcome of bcrypt.hash that is a thrown error instead of a salt *)
BcryptFault == "bcrypt.hash throws"

(* variant: the catch block returns the password as it came *)
PasswordService_hash_Swallow(password, salt) ==
    IF salt = BcryptFault THEN [status |-> 200, hash |-> password]
    ELSE [status |-> 200, hash |-> BcryptHash(password, salt)]

(* hash: the hash under the drawn salt; an error of bcrypt.hash is caught   *)
(* and rethrown as InternalServerErrorException                             *)
PasswordService_hash(password, salt) ==
    IF salt = BcryptFault THEN [status |-> 500, hash |-> ""]
    ELSE [status |-> 200, hash |-> BcryptHash(password, salt)]

PasswordService_compare(password, hashed) == BcryptCompare(password, hashed)

Hashes == {BcryptHash(p, s) : p \in Plaintexts \cup {ShortPass}, s \in Salts}

----------------------------------------------------------------------------
(* TypeORM Repository<Entity>, as the repositories of this program use it *)

UserColumns == {"id", "email", "password", "firstName", "lastName"}
TaskColumns == {"id", "title", "description", "userId"}

(* Repository.create(plain): a new entity holding the plain object's        *)
(* properties that are columns of the entity                                *)
Repository_create(plain, columns) ==
    [k \in (DOMAIN plain) \cap columns |-> plain[k]]

(* variant: no unique constraint on user.email *)
EmailIsFree_Unchecked(table, row) == TRUE

(* the unique constraint on user.email: no other row holds this email *)
EmailIsFree(table, row) ==
    \A k \in DOMAIN table : k # row.id => table[k].email # row.email

(* Repository.save(entity) on table "user".  An entity that carries an id   *)
(* is updated when that row exists and inserted under that id otherwise; an *)
(* entity without id is inserted under the next value of the sequence,      *)
(* which is consumed whether or not the insert succeeds.  A violated        *)
(* constraint rejects the statement (QueryFailedError) and writes nothing.  *)
UsersRepository_save(entity) ==
    LET generated == "id" \notin DOMAIN entity
        row  == IF generated THEN Spread(entity, [id |-> userSeq])
                ELSE IF entity.id \in DOMAIN users THEN Spread(users[entity.id], entity)
                ELSE entity
        seq  == IF generated THEN userSeq + 1 ELSE userSeq
        ok   == /\ DOMAIN row = UserColumns
                /\ generated => row.id \notin DOMAIN users
                /\ EmailIsFree(users, row)
    IN  IF ok THEN [status |-> 200, body |-> Spread(entity, [id |-> row.id]),
                    users |-> Put(users, row), userSeq |-> seq]
        ELSE [status |-> 500, body |-> NoBody, users |-> users, userSeq |-> seq]

(* the foreign key task.userId -> user.id of the relation Task.user, seen   *)
(* from the referenced side (ON DELETE NO ACTION): no task refers to the row *)
NoTaskRefersTo(id) == \A k \in DOMAIN tasks : tasks[k].userId # id

(* variant: the relation declares onDelete: 'CASCADE' *)
TaskForeignKey_OnDelete_Cascade(id) ==
    [ok |-> TRUE,
     tasks |-> [k \in {i \in DOMAIN tasks : tasks[i].userId # id} |-> tasks[k]]]

(* what the foreign key does when the user row of that id is deleted: the   *)
(* statement is rejected while a task refers to the row, and table task is  *)
(* left as it is                                                            *)
TaskForeignKey_OnDelete(id) == [ok |-> NoTaskRefersTo(id), tasks |-> tasks]

(* Repository.remove(entity) on table "user": DELETE by id; deleting a row  *)
(* that is already gone is no error                                         *)
UsersRepository_remove(entity) ==
    LET fk == TaskForeignKey_OnDelete(entity.id)
    IN  IF fk.ok
        THEN [status |-> 200, body |-> entity, tasks |-> fk.tasks,
              users |-> Without(users, entity.id), userSeq |-> userSeq]
        ELSE [status |-> 500, body |-> NoBody, tasks |-> tasks,
              users |-> users, userSeq |-> userSeq]

(* variant: findOne without the where clause *)
UsersRepository_findByEmail_AnyRow(email) == {users[k] : k \in DOMAIN users}

(* UsersRepository.findByEmail: the row with that email, or undefined *)
UsersRepository_findByEmail(email) ==
    {users[k] : k \in {i \in DOMAIN users : users[i].email = email}}

----------------------------------------------------------------------------
(* UsersService: every operation yields [status, body, users, userSeq] *)

UserNotFound ==
    [status |-> 404, body |-> NoBody, tasks |-> tasks,
     users |-> users, userSeq |-> userSeq]

HashingError ==
    [status |-> 500, body |-> [message |-> "Error hashing password"],
     users |-> users, userSeq |-> userSeq]

(* variant: the DTO is saved as submitted *)
UsersService_create_Plaintext(createUserDto, salt) ==
    UsersRepository_save(Repository_create(createUserDto, UserColumns))

UsersService_create(createUserDto, salt) ==
    LET hashedPassword == PasswordService_hash(createUserDto.password, salt)
        user == Repository_create(
                    Spread(createUserDto, [password |-> hashedPassword.hash]),
                    UserColumns)
    IN  IF hashedPassword.status # 200 THEN HashingError
        ELSE UsersRepository_save(user)

UsersService_findAll ==
    [status |-> 200, body |-> {users[k] : k \in DOMAIN users},
     users |-> users, userSeq |-> userSeq]

(* variant: a missing row is answered with an empty result *)
UsersService_findOne_NoThrow(id) ==
    [status |-> 200,
     body |-> IF id \in DOMAIN users THEN users[id] ELSE [id |-> id],
     users |-> users, userSeq |-> userSeq]

UsersService_findOne(id) ==
    IF id \notin DOMAIN users THEN UserNotFound
    ELSE [status |-> 200, body |-> users[id], users |-> users, userSeq |-> userSeq]

(* if (updateUserDto.password): present and not the empty string *)
Truthy(dto, key) == key \in DOMAIN dto /\ dto[key] # ""

(* variant: the partial is merged as submitted *)
UsersService_update_NoHash(id, updateUserDto, salt) ==
    LET found == UsersService_findOne(id)
    IN  IF found.status # 200 THEN found
        ELSE UsersRepository_save(Spread(found.body, updateUserDto))

(* variant: the spread the other way round, { ...updateUserDto, ...user } *)
UsersService_update_save_StoredWins(user, updateUserDto, salt) ==
    UsersRepository_save(Spread(updateUserDto, user))

(* update after its findOne: hash the password when one is given, then save *)
(* the loaded user merged with the partial                                  *)
UsersService_update_save(user, updateUserDto, salt) ==
    LET hashed == PasswordService_hash(updateUserDto.password, salt)
        dto    == IF Truthy(updateUserDto, "password")
                  THEN Spread(updateUserDto, [password |-> hashed.hash])
                  ELSE updateUserDto
    IN  IF Truthy(updateUserDto, "password") /\ hashed.status # 200 THEN HashingError
        ELSE UsersRepository_save(Spread(user, dto))

UsersService_update(id, updateUserDto, salt) ==
    LET found == UsersService_findOne(id)
    IN  IF found.status # 200 THEN found
        ELSE UsersService_update_save(found.body, updateUserDto, salt)

(* remove after its findOne *)
UsersService_remove_delete(user) == UsersRepository_remove(user)

UsersService_remove(id) ==
    LET found == UsersService_findOne(id)
    IN  IF found.status # 200 THEN found
        ELSE UsersService_remove_delete(found.body)

(* variant: the result of the repository is returned as it is *)
UsersService_findByEmail_NoThrow(email) ==
    LET user == UsersRepository_findByEmail(email)
    IN  [status |-> 200, body |-> IF user = {} THEN NoBody ELSE CHOOSE u \in user : TRUE,
         users |-> users, userSeq |-> userSeq]

UsersService_findByEmail(email) ==
    LET user == UsersRepository_findByEmail(email)
    IN  IF user = {}
        THEN [status |-> 404,
              body |-> [message |-> "User with email " \o email \o " not found"],
              users |-> users, userSeq |-> userSeq]
        ELSE [status |-> 200, body |-> CHOOSE u \in user : TRUE,
              users |-> users, userSeq |-> userSeq]

----------------------------------------------------------------------------
(* TasksRepository and TasksService: every operation yields                 *)
(* [status, body, tasks, taskSeq]                                           *)

(* relations: ['user']: the task with its owner's row joined (none when no  *)
(* row has that id)                                                         *)
WithUser(task) ==
    Spread(task, [user |-> IF task.userId \in DOMAIN users
                           THEN users[task.userId] ELSE NoBody])

(* variant: task.userId is a plain column *)
TaskOwnerIsStored_Unchecked(row) == TRUE

(* the foreign key task.userId -> user.id, seen from the referencing side *)
TaskOwnerIsStored(row) == row.userId \in DOMAIN users

(* variant: a rejected insert is tried again under the next generated id *)
TasksRepository_save_Retry(entity) ==
    LET generated == "id" \notin DOMAIN entity
        next == IF taskSeq \in DOMAIN tasks THEN taskSeq + 1 ELSE taskSeq
        row  == IF generated THEN Spread(entity, [id |-> next])
                ELSE IF entity.id \in DOMAIN tasks THEN Spread(tasks[entity.id], entity)
                ELSE entity
        seq  == IF generated THEN next + 1 ELSE taskSeq
        ok   == /\ DOMAIN row = TaskColumns
                /\ generated => row.id \notin DOMAIN tasks
                /\ TaskOwnerIsStored(row)
    IN  IF ok THEN [status |-> 200, body |-> Spread(entity, [id |-> row.id]),
                    tasks |-> Put(tasks, row), taskSeq |-> seq]
        ELSE [status |-> 500, body |-> NoBody, tasks |-> tasks, taskSeq |-> seq]

TasksRepository_save(entity) ==
    LET generated == "id" \notin DOMAIN entity
        row  == IF generated THEN Spread(entity, [id |-> taskSeq])
                ELSE IF entity.id \in DOMAIN tasks THEN Spread(tasks[entity.id], entity)
                ELSE entity
        seq  == IF generated THEN taskSeq + 1 ELSE taskSeq
        ok   == /\ DOMAIN row = TaskColumns
                /\ generated => row.id \notin DOMAIN tasks
                /\ TaskOwnerIsStored(row)
    IN  IF ok THEN [status |-> 200, body |-> Spread(entity, [id |-> row.id]),
                    tasks |-> Put(tasks, row), taskSeq |-> seq]
        ELSE [status |-> 500, body |-> NoBody, tasks |-> tasks, taskSeq |-> seq]

TasksRepository_remove(entity) ==
    [status |-> 200, body |-> entity,
     tasks |-> Without(tasks, entity.id), taskSeq |-> taskSeq]

(* variant: find without the where clause *)
TasksRepository_findByUserId_All(userId) ==
    {WithUser(tasks[k]) : k \in DOMAIN tasks}

TasksRepository_findByUserId(userId) ==
    {WithUser(tasks[k]) : k \in {i \in DOMAIN tasks : tasks[i].userId = userId}}

TaskError(code) == [status |-> code, body |-> NoBody, tasks |-> tasks, taskSeq |-> taskSeq]

(* variant: the task is bound to the caller id without resolving the owner *)
TasksService_create_NoOwnerLookup(userId, createTaskDto) ==
    TasksRepository_save(
        Repository_create(Spread(createTaskDto, [userId |-> userId]), TaskColumns))

(* variant: the spread the other way round, { userId: user.id, ...createTaskDto } *)
TasksService_create_save_DtoWins(user, createTaskDto) ==
    TasksRepository_save(
        Repository_create(Spread([userId |-> user.id], createTaskDto), TaskColumns))

(* create after its owner lookup: build the task for the loaded user, save *)
TasksService_create_save(user, createTaskDto) ==
    TasksRepository_save(
        Repository_create(Spread(createTaskDto, [userId |-> user.id]), TaskColumns))

TasksService_create(userId, createTaskDto) ==
    LET user == UsersService_findOne(userId)
    IN  IF user.status # 200 THEN TaskError(404)
        ELSE TasksService_create_save(user.body, createTaskDto)

(* variant: findAll resolves the owner first, as create does *)
TasksService_findAll_CheckOwner(userId) ==
    IF UsersService_findOne(userId).status # 200 THEN TaskError(404)
    ELSE [status |-> 200, body |-> TasksRepository_findByUserId(userId),
          tasks |-> tasks, taskSeq |-> taskSeq]

TasksService_findAll(userId) ==
    [status |-> 200, body |-> TasksRepository_findByUserId(userId),
     tasks |-> tasks, taskSeq |-> taskSeq]

(* variant: the task found is taken out of the table *)
TasksService_findOne_Consuming(id, userId) ==
    IF id \notin DOMAIN tasks THEN TaskError(404)
    ELSE IF tasks[id].userId # userId THEN TaskError(403)
    ELSE [status |-> 200, body |-> WithUser(tasks[id]),
          tasks |-> Without(tasks, id), taskSeq |-> taskSeq]

(* variant: the ownership test comes first *)
TasksService_findOne_OwnerFirst(id, userId) ==
    IF id \notin DOMAIN tasks \/ tasks[id].userId # userId THEN TaskError(403)
    ELSE [status |-> 200, body |-> WithUser(tasks[id]),
          tasks |-> tasks, taskSeq |-> taskSeq]

TasksService_findOne(id, userId) ==
    IF id \notin DOMAIN tasks THEN TaskError(404)
    ELSE IF tasks[id].userId # userId THEN TaskError(403)
    ELSE [status |-> 200, body |-> WithUser(tasks[id]),
          tasks |-> tasks, taskSeq |-> taskSeq]

(* variant: the task is loaded by id alone *)
TasksService_remove_AnyCaller(id, userId) ==
    IF id \notin DOMAIN tasks THEN TaskError(404)
    ELSE TasksRepository_remove(WithUser(tasks[id]))

(* remove after its findOne *)
TasksService_remove_delete(task) == TasksRepository_remove(task)

TasksService_remove(id, userId) ==
    LET task == TasksService_findOne(id, userId)
    IN  IF task.status # 200 THEN task
        ELSE TasksService_remove_delete(task.body)

----------------------------------------------------------------------------
(* The request pipeline: guard, validation pipe, handler *)

MinPasswordLength == 6

IsEmail(v) == v \in Emails

UserDtoFields == {"email", "password", "firstName", "lastName"}

(* variant: CreateUserDto without @MinLength(6) *)
ValidCreateUserDto_NoMinLength(dto) ==
    /\ {"email", "password", "firstName", "lastName"} \subseteq DOMAIN dto
    /\ IsEmail(dto.email)
    /\ dto.password # ""
    /\ dto.firstName # ""
    /\ dto.lastName # ""

(* class-validator on CreateUserDto *)
ValidCreateUserDto(dto) ==
    /\ {"email", "password", "firstName", "lastName"} \subseteq DOMAIN dto
    /\ IsEmail(dto.email)
    /\ dto.password # "" /\ Len(dto.password) >= MinPasswordLength
    /\ dto.firstName # ""
    /\ dto.lastName # ""

(* UpdateUserDto, the partial version of CreateUserDto: a property that is  *)
(* present obeys the rule of CreateUserDto                                  *)
ValidUpdateUserDto(dto) ==
    /\ "email" \in DOMAIN dto => IsEmail(dto.email)
    /\ "password" \in DOMAIN dto =>
           dto.password # "" /\ Len(dto.password) >= MinPasswordLength
    /\ "firstName" \in DOMAIN dto => dto.firstName # ""
    /\ "lastName" \in DOMAIN dto => dto.lastName # ""

(* a JSON value that is no string: the number 42 *)
JsonNumber == "42 (number)"

IsString(v) == v # JsonNumber

IsNotEmpty(v) == v # ""

(* class-validator on CreateTaskDto *)
ValidCreateTaskDto(dto) ==
    /\ {"title", "description"} \subseteq DOMAIN dto
    /\ IsString(dto.title) /\ IsNotEmpty(dto.title)
    /\ IsString(dto.description) /\ IsNotEmpty(dto.description)

(* The credentials a request can present: none, a header that is no bearer  *)
(* token, a forged or expired token naming a user, a token this server      *)
(* issued                                                                   *)
NoCred == [kind |-> "missing", sub |-> 0]
Credentials ==
    {NoCred, [kind |-> "malformed", sub |-> 0]}
        \cup {[kind |-> "invalid", sub |-> u] : u \in UserIds}
        \cup {[kind |-> "bearer", sub |-> u] : u \in tokens}

(* AuthGuard.canActivate: the caller identity of a bearer token this server *)
(* issued, none for any other credential                                    *)
AuthGuard(cred) ==
    IF cred.kind = "bearer" /\ cred.sub \in tokens
    THEN [ok |-> TRUE, user |-> [id |-> cred.sub]]
    ELSE [ok |-> FALSE, user |-> NoBody]

(* variant: findAll without @UseGuards *)
GuardedRoutes_GetUnguarded == {"POST /tasks", "GET /tasks/:id", "DELETE /tasks/:id"}

(* @UseGuards(AuthGuard) on the handlers of TasksController *)
GuardedRoutes == {"POST /tasks", "GET /tasks", "GET /tasks/:id", "DELETE /tasks/:id"}

CanActivate(route, cred) == route \in GuardedRoutes => AuthGuard(cred).ok

(* req.user, as the guard left it *)
ReqUser(cred) == AuthGuard(cred).user

(* a slot that holds no suspended request *)
Idle == [op |-> "idle"]

Response(op, cred, id, dto, status, body, svc) ==
    [op |-> op, cred |-> cred, id |-> id, dto |-> dto,
     status |-> status, body |-> body, svc |-> svc]

(* error.message of the exception behind an error response *)
ErrorMessage(body) == IF body = NoBody THEN "" ELSE body.message

(* logger.log of the request, before next.handle() *)
RequestLine(request) ==
    [level |-> "log", kind |-> "Request", route |-> request.op, body |-> request.dto]

(* tap, next: logger.log for the value the handler emitted (the JSON text *)
(* of the value is not kept in the line)                                  *)
SuccessLine(request) ==
    [level |-> "log", kind |-> "Success", route |-> request.op]

(* tap, error: logger.error of the error the handler raised *)
ErrorLine(request) ==
    [level |-> "error", kind |-> "Error", route |-> request.op,
     message |-> ErrorMessage(request.body)]

(* variant: catchError in the place of tap, the error is logged and an    *)
(* empty value is emitted                                                  *)
LoggingInterceptor_intercept_Swallow(outcome) ==
    IF outcome.status < 400
    THEN [log |-> <<RequestLine(outcome), SuccessLine(outcome)>>, outcome |-> outcome]
    ELSE [log |-> <<RequestLine(outcome), ErrorLine(outcome)>>,
          outcome |-> [outcome EXCEPT !.status = 200, !.body = NoBody]]

(* LoggingInterceptor.intercept around the outcome of next.handle(): the   *)
(* request line, then tap's line for the value or for the error; tap hands *)
(* the value or the error on as it is                                      *)
LoggingInterceptor_intercept(outcome) ==
    [log |-> <<RequestLine(outcome),
               IF outcome.status < 400 THEN SuccessLine(outcome) ELSE ErrorLine(outcome)>>,
     outcome |-> outcome]

(* the response of a request that went through the global interceptor *)
Reply(outcome) ==
    \E handled \in {outcome} :
        LET r == LoggingInterceptor_intercept(handled)
        IN  /\ last' = r.outcome
            /\ log' = r.log

(* the response of a request the guard turned away (guards run before the  *)
(* interceptors), or the result of a direct service call: nothing is logged *)
Unlogged(outcome) ==
    /\ last' = outcome
    /\ log' = <<>>

(* The request bodies tried *)
WithId(dtos, ids) == {Spread(d, [id |-> i]) : d \in dtos, i \in ids}

GoodCreateUserDtos ==
    [email : Emails, password : Plaintexts, firstName : {"Ann"}, lastName : LastNames]

PlainCreateUserDtos ==
    [email : Emails, password : {"secret1"}, firstName : {"Ann"}, lastName : LastNames]

BadCreateUserDtos ==
    {[email |-> BadEmail, password |-> "secret1", firstName |-> "Ann", lastName |-> "Doe"],
     [email |-> "a@b.com", password |-> ShortPass, firstName |-> "Ann", lastName |-> "Doe"],
     [email |-> "a@b.com", password |-> "secret1", firstName |-> "", lastName |-> "Doe"],
     [email |-> "a@b.com", password |-> "secret1", firstName |-> "Ann"]}

CreateUserDtos ==
    GoodCreateUserDtos \cup WithId(PlainCreateUserDtos, UserIds) \cup BadCreateUserDtos

GoodUpdateUserDtos ==
    {Empty} \cup [email : Emails] \cup [password : Plaintexts] \cup [firstName : FirstNames]

BadUpdateUserDtos == {[password |-> ""], [password |-> ShortPass], [email |-> BadEmail]}

UpdateUserDtos ==
    GoodUpdateUserDtos \cup WithId([email : Emails], UserIds) \cup BadUpdateUserDtos

GoodCreateTaskDtos == [title : Titles, description : Descriptions]

BadCreateTaskDtos ==
    {[title |-> "", description |-> "2% and whole"], [title |-> "Buy milk"],
     [title |-> "Buy milk", description |-> JsonNumber]}

WithUserId(dtos, ids) == {Spread(d, [userId |-> u]) : d \in dtos, u \in ids}

CreateTaskDtos ==
    GoodCreateTaskDtos \cup WithId(GoodCreateTaskDtos, TaskIds)
        \cup WithUserId([title : {"Buy milk"}, description : Descriptions], UserIds)
        \cup BadCreateTaskDtos

----------------------------------------------------------------------------
(* Users routes *)

PostUsers(dto, salt) ==
    /\ userSeq <= MaxUsers
    /\ IF ~ValidCreateUserDto(dto)
       THEN /\ Reply(Response("POST /users", NoCred, 0, dto, 400, NoBody, "none"))
            /\ UNCHANGED <<users, userSeq>>
       ELSE LET r == UsersService_create(dto, salt)
            IN  /\ users' = r.users
                /\ userSeq' = r.userSeq
                /\ Reply(Response("POST /users", NoCred, 0, dto,
                                  IF r.status = 200 THEN 201 ELSE r.status,
                                  r.body, "UsersService.create"))
    /\ UNCHANGED <<tasks, taskSeq, tokens, inflight>>

GetUsers ==
    LET r == UsersService_findAll
    IN  /\ Reply(Response("GET /users", NoCred, 0, NoBody, r.status, r.body,
                          "UsersService.findAll"))
        /\ users' = r.users
        /\ userSeq' = r.userSeq
        /\ UNCHANGED <<tasks, taskSeq, tokens, inflight>>

GetUser(id) ==
    LET r == UsersService_findOne(id)
    IN  /\ Reply(Response("GET /users/:id", NoCred, id, NoBody, r.status, r.body,
                          "UsersService.findOne"))
        /\ users' = r.users
        /\ userSeq' = r.userSeq
        /\ UNCHANGED <<tasks, taskSeq, tokens, inflight>>

PatchUser(id, dto, salt) ==
    /\ IF ~ValidUpdateUserDto(dto)
       THEN /\ Reply(Response("PATCH /users/:id", NoCred, id, dto, 400, NoBody, "none"))
            /\ UNCHANGED <<users, userSeq>>
       ELSE LET r == UsersService_update(id, dto, salt)
            IN  /\ users' = r.users
                /\ userSeq' = r.userSeq
                /\ Reply(Response("PATCH /users/:id", NoCred, id, dto, r.status,
                                  r.body, "UsersService.update"))
    /\ UNCHANGED <<tasks, taskSeq, tokens, inflight>>

DeleteUser(id) ==
    LET r == UsersService_remove(id)
    IN  /\ Reply(Response("DELETE /users/:id", NoCred, id, NoBody, r.status, r.body,
                          "UsersService.remove"))
        /\ users' = r.users
        /\ userSeq' = r.userSeq
        /\ tasks' = r.tasks
        /\ UNCHANGED <<taskSeq, tokens, inflight>>

(* POST /auth/login: the user of that email, when the password matches the *)
(* stored hash, is issued a bearer token                                    *)
Login(email, password) ==
    LET r == UsersService_findByEmail(email)
        ok == r.status = 200 /\ PasswordService_compare(password, r.body.password)
    IN  /\ tokens' = IF ok THEN tokens \cup {r.body.id} ELSE tokens
        /\ Reply(Response("POST /auth/login", NoCred, 0,
                          [email |-> email, password |-> password],
                          IF ok THEN 201 ELSE 401, NoBody,
                          "UsersService.findByEmail"))
        /\ UNCHANGED <<users, userSeq, tasks, taskSeq, inflight>>

(* UsersService.findByEmail, as the users.service.spec.ts test and the      *)
(* token issuance call it                                                   *)
FindByEmail(email) ==
    LET r == UsersService_findByEmail(email)
    IN  /\ Unlogged(Response("UsersService.findByEmail", NoCred, 0, [email |-> email],
                             r.status, r.body, "UsersService.findByEmail"))
        /\ users' = r.users
        /\ userSeq' = r.userSeq
        /\ UNCHANGED <<tasks, taskSeq, tokens, inflight>>

----------------------------------------------------------------------------
(* TasksController: the body of each handler, reached once the guard and    *)
(* the validation pipe let the request through.  A handler reads            *)
(* req.user.id, which throws when no guard set req.user.                    *)

(* variant: the owner id is read from the body when the body names one *)
TasksController_create_BodyOwner(cred, createTaskDto) ==
    IF ReqUser(cred) = NoBody THEN Spread(TaskError(500), [svc |-> "none"])
    ELSE Spread(TasksService_create(IF "userId" \in DOMAIN createTaskDto
                                    THEN createTaskDto.userId ELSE ReqUser(cred).id,
                                    createTaskDto),
                [svc |-> "TasksService.create"])

TasksController_create(cred, createTaskDto) ==
    IF ReqUser(cred) = NoBody THEN Spread(TaskError(500), [svc |-> "none"])
    ELSE Spread(TasksService_create(ReqUser(cred).id, createTaskDto),
                [svc |-> "TasksService.create"])

TasksController_findAll(cred) ==
    IF ReqUser(cred) = NoBody THEN Spread(TaskError(500), [svc |-> "none"])
    ELSE Spread(TasksService_findAll(ReqUser(cred).id),
                [svc |-> "TasksService.findAll"])

TasksController_findOne(cred, id) ==
    IF ReqUser(cred) = NoBody THEN Spread(TaskError(500), [svc |-> "none"])
    ELSE Spread(TasksService_findOne(id, ReqUser(cred).id),
                [svc |-> "TasksService.findOne"])

TasksController_remove(cred, id) ==
    IF ReqUser(cred) = NoBody THEN Spread(TaskError(500), [svc |-> "none"])
    ELSE Spread(TasksService_remove(id, ReqUser(cred).id),
                [svc |-> "TasksService.remove"])

PostTasks(cred, dto) ==
    /\ taskSeq <= MaxTasks
    /\ IF ~CanActivate("POST /tasks", cred)
       THEN /\ Unlogged(Response("POST /tasks", cred, 0, NoBody, 401, NoBody, "none"))
            /\ UNCHANGED <<tasks, taskSeq>>
       ELSE IF ~ValidCreateTaskDto(dto)
       THEN /\ Reply(Response("POST /tasks", cred, 0, dto, 400, NoBody, "none"))
            /\ UNCHANGED <<tasks, taskSeq>>
       ELSE LET r == TasksController_create(cred, dto)
            IN  /\ tasks' = r.tasks
                /\ taskSeq' = r.taskSeq
                /\ Reply(Response("POST /tasks", cred, 0, dto,
                                  IF r.status = 200 THEN 201 ELSE r.status,
                                  r.body, r.svc))
    /\ UNCHANGED <<users, userSeq, tokens, inflight>>

GetTasks(cred) ==
    /\ IF ~CanActivate("GET /tasks", cred)
       THEN /\ Unlogged(Response("GET /tasks", cred, 0, NoBody, 401, NoBody, "none"))
            /\ UNCHANGED <<tasks, taskSeq>>
       ELSE LET r == TasksController_findAll(cred)
            IN  /\ tasks' = r.tasks
                /\ taskSeq' = r.taskSeq
                /\ Reply(Response("GET /tasks", cred, 0, NoBody, r.status, r.body, r.svc))
    /\ UNCHANGED <<users, userSeq, tokens, inflight>>

GetTask(cred, id) ==
    /\ IF ~CanActivate("GET /tasks/:id", cred)
       THEN /\ Unlogged(Response("GET /tasks/:id", cred, 0, NoBody, 401, NoBody, "none"))
            /\ UNCHANGED <<tasks, taskSeq>>
       ELSE LET r == TasksController_findOne(cred, id)
            IN  /\ tasks' = r.tasks
                /\ taskSeq' = r.taskSeq
                /\ Reply(Response("GET /tasks/:id", cred, id, NoBody, r.status, r.body, r.svc))
    /\ UNCHANGED <<users, userSeq, tokens, inflight>>

DeleteTask(cred, id) ==
    /\ IF ~CanActivate("DELETE /tasks/:id", cred)
       THEN /\ Unlogged(Response("DELETE /tasks/:id", cred, 0, NoBody, 401, NoBody, "none"))
            /\ UNCHANGED <<tasks, taskSeq>>
       ELSE LET r == TasksController_remove(cred, id)
            IN  /\ tasks' = r.tasks
                /\ taskSeq' = r.taskSeq
                /\ Reply(Response("DELETE /tasks/:id", cred, id, NoBody, r.status, r.body, r.svc))
    /\ UNCHANGED <<users, userSeq, tokens, inflight>>

----------------------------------------------------------------------------
(* Requests that overlap.  A service method that reads and then writes      *)
(* awaits its read: the request is suspended there, other requests run, and *)
(* its write acts on the store as it is when the request resumes, with the  *)
(* entity it loaded.  A request that ends before its write (guard,          *)
(* validation, a failed lookup) ends in one step, as in the routes above.   *)

Suspend(slot, op, cred, id, dto, loaded) ==
    inflight' = [inflight EXCEPT ![slot] =
                    [op |-> op, cred |-> cred, id |-> id, dto |-> dto, loaded |-> loaded]]

Resume(slot) == inflight' = [inflight EXCEPT ![slot] = Idle]

(* TasksService.create up to the end of `await usersService.findOne(userId)` *)
BeginPostTasks(slot, cred, dto) ==
    /\ inflight[slot] = Idle
    /\ IF /\ CanActivate("POST /tasks", cred)
          /\ ValidCreateTaskDto(dto)
          /\ ReqUser(cred) # NoBody
          /\ UsersService_findOne(ReqUser(cred).id).status = 200
       THEN /\ taskSeq <= MaxTasks
            /\ Suspend(slot, "TasksService.create", cred, 0, dto,
                       UsersService_findOne(ReqUser(cred).id).body)
            /\ UNCHANGED <<users, userSeq, tasks, taskSeq, tokens, last, log>>
       ELSE PostTasks(cred, dto)

(* TasksService.create from `tasksRepository.create` on *)
FinishPostTasks(slot) ==
    /\ inflight[slot].op = "TasksService.create"
    /\ LET q == inflight[slot]
           r == TasksService_create_save(q.loaded, q.dto)
       IN  /\ tasks' = r.tasks
           /\ taskSeq' = r.taskSeq
           /\ Reply(Response("POST /tasks", q.cred, 0, q.dto,
                             IF r.status = 200 THEN 201 ELSE r.status,
                             r.body, "TasksService.create"))
    /\ Resume(slot)
    /\ UNCHANGED <<users, userSeq, tokens>>

(* UsersService.update up to the end of `await this.findOne(id)` *)
BeginPatchUser(slot, id, dto) ==
    /\ inflight[slot] = Idle
    /\ IF ValidUpdateUserDto(dto) /\ UsersService_findOne(id).status = 200
       THEN /\ Suspend(slot, "UsersService.update", NoCred, id, dto,
                       UsersService_findOne(id).body)
            /\ UNCHANGED <<users, userSeq, tasks, taskSeq, tokens, last, log>>
       ELSE PatchUser(id, dto, "saltA")

(* UsersService.update from the hashing of the password on *)
FinishPatchUser(slot, salt) ==
    /\ inflight[slot].op = "UsersService.update"
    /\ LET q == inflight[slot]
           r == UsersService_update_save(q.loaded, q.dto, salt)
       IN  /\ users' = r.users
           /\ userSeq' = r.userSeq
           /\ Reply(Response("PATCH /users/:id", NoCred, q.id, q.dto, r.status,
                             r.body, "UsersService.update"))
    /\ Resume(slot)
    /\ UNCHANGED <<tasks, taskSeq, tokens>>

(* UsersService.remove up to the end of `await this.findOne(id)` *)
BeginDeleteUser(slot, id) ==
    /\ inflight[slot] = Idle
    /\ IF UsersService_findOne(id).status = 200
       THEN /\ Suspend(slot, "UsersService.remove", NoCred, id, NoBody,
                       UsersService_findOne(id).body)
            /\ UNCHANGED <<users, userSeq, tasks, taskSeq, tokens, last, log>>
       ELSE DeleteUser(id)

(* UsersService.remove: `usersRepository.remove(user)` *)
FinishDeleteUser(slot) ==
    /\ inflight[slot].op = "UsersService.remove"
    /\ LET q == inflight[slot]
           r == UsersService_remove_delete(q.loaded)
       IN  /\ users' = r.users
           /\ userSeq' = r.userSeq
           /\ tasks' = r.tasks
           /\ Reply(Response("DELETE /users/:id", NoCred, q.id, NoBody, r.status,
                             r.body, "UsersService.remove"))
    /\ Resume(slot)
    /\ UNCHANGED <<taskSeq, tokens>>

(* TasksService.remove up to the end of `await this.findOne(id, userId)` *)
BeginDeleteTask(slot, cred, id) ==
    /\ inflight[slot] = Idle
    /\ IF /\ CanActivate("DELETE /tasks/:id", cred)
          /\ ReqUser(cred) # NoBody
          /\ TasksService_findOne(id, ReqUser(cred).id).status = 200
       THEN /\ Suspend(slot, "TasksService.remove", cred, id, NoBody,
                       TasksService_findOne(id, ReqUser(cred).id).body)
            /\ UNCHANGED <<users, userSeq, tasks, taskSeq, tokens, last, log>>
       ELSE DeleteTask(cred, id)

(* TasksService.remove: `tasksRepository.remove(task)` *)
FinishDeleteTask(slot) ==
    /\ inflight[slot].op = "TasksService.remove"
    /\ LET q == inflight[slot]
           r == TasksService_remove_delete(q.loaded)
       IN  /\ tasks' = r.tasks
           /\ taskSeq' = r.taskSeq
           /\ Reply(Response("DELETE /tasks/:id", q.cred, q.id, NoBody, r.status,
                             r.body, "TasksService.remove"))
    /\ Resume(slot)
    /\ UNCHANGED <<users, userSeq, tokens>>

----------------------------------------------------------------------------
Init ==
    /\ users = Empty
    /\ tasks = Empty
    /\ userSeq = 1
    /\ taskSeq = 1
    /\ tokens = {}
    /\ inflight = [s \in Slots |-> Idle]
    /\ last = Response("none", NoCred, 0, NoBody, 0, NoBody, "none")
    /\ log = <<>>

(* The Tasks routes in full, over users that differ in id and email *)
Next ==
    \/ \E dto \in PlainCreateUserDtos \cup BadCreateUserDtos \cup {[email |-> BadEmail]} :
            PostUsers(dto, "saltA")
    \/ GetUsers
    \/ \E id \in UserIds : GetUser(id)
    \/ \E id \in UserIds, dto \in [email : Emails] \cup {[password |-> ""]} :
            PatchUser(id, dto, "saltA")
    \/ \E id \in UserIds : DeleteUser(id)
    \/ \E email \in Emails, password \in Plaintexts : Login(email, password)
    \/ \E cred \in Credentials, dto \in CreateTaskDtos : PostTasks(cred, dto)
    \/ \E cred \in Credentials : GetTasks(cred)
    \/ \E cred \in Credentials, id \in TaskIds : GetTask(cred, id)
    \/ \E cred \in Credentials, id \in TaskIds : DeleteTask(cred, id)

Spec == Init /\ [][Next]_vars

(* bcrypt draws a salt, or fails, only when hash is called *)
SaltsDrawn(dto) ==
    IF "password" \in DOMAIN dto /\ ValidUpdateUserDto(dto)
    THEN Salts \cup {BcryptFault} ELSE {"saltA"}

(* The Users routes in full; no Tasks route writes users, userSeq or tokens *)
NextUsers ==
    \/ \E dto \in CreateUserDtos :
            \E salt \in SaltsDrawn(dto) : PostUsers(dto, salt)
    \/ \E email \in Emails : FindByEmail(email)
    \/ GetUsers
    \/ \E id \in UserIds : GetUser(id)
    \/ \E id \in UserIds, dto \in UpdateUserDtos :
            \E salt \in SaltsDrawn(dto) : PatchUser(id, dto, salt)
    \/ \E id \in UserIds : DeleteUser(id)
    \/ \E email \in Emails, password \in Plaintexts : Login(email, password)

SpecUsers == Init /\ [][NextUsers]_vars

BearerCredentials == {cred \in Credentials : cred.kind = "bearer"}

(* Overlapping requests: the methods that read and then write, in two steps *)
NextOverlap ==
    \/ \E dto \in PlainCreateUserDtos : PostUsers(dto, "saltA")
    \/ \E email \in Emails : Login(email, "secret1")
    \/ \E id \in UserIds : GetUser(id)
    \/ \E slot \in Slots, cred \in BearerCredentials,
            dto \in [title : {"Buy milk"}, description : Descriptions] :
            BeginPostTasks(slot, cred, dto)
    \/ \E slot \in Slots : FinishPostTasks(slot)
    \/ \E slot \in Slots, id \in UserIds : BeginPatchUser(slot, id, [firstName |-> "Bob"])
    \/ \E slot \in Slots : FinishPatchUser(slot, "saltA")
    \/ \E slot \in Slots, id \in UserIds : BeginDeleteUser(slot, id)
    \/ \E slot \in Slots : FinishDeleteUser(slot)
    \/ \E slot \in Slots, cred \in BearerCredentials, id \in TaskIds :
            BeginDeleteTask(slot, cred, id)
    \/ \E slot \in Slots : FinishDeleteTask(slot)

SpecOverlap == Init /\ [][NextOverlap]_vars

----------------------------------------------------------------------------
(* Properties of the Tasks routes, under Spec *)

TaskRow(entity) == Omit(entity, "user")

(* C1: TasksService.findOne(id, ownerId) tests existence before ownership:  *)
(* for every task id and caller it answers NotFound when no task has that   *)
(* id, Forbidden (never NotFound) when the task is stored under another     *)
(* userId, and the task only when its userId is the caller's; and the       *)
(* answer of GET /tasks/:id is that of findOne(id, req.user.id).            *)
C1_FindOneExistenceThenOwnership ==
    /\ \A id \in TaskIds, ownerId \in UserIds :
          LET r == TasksService_findOne(id, ownerId)
          IN  /\ id \notin DOMAIN tasks => r.status = 404
              /\ (id \in DOMAIN tasks /\ tasks[id].userId # ownerId) => r.status = 403
              /\ r.status = 200 =>
                    /\ id \in DOMAIN tasks
                    /\ tasks[id].userId = ownerId
                    /\ TaskRow(r.body) = tasks[id]
              /\ (id \in DOMAIN tasks /\ tasks[id].userId = ownerId) => r.status = 200
    /\ (last.op = "GET /tasks/:id" /\ last.svc = "TasksService.findOne") =>
          /\ last.id \notin DOMAIN tasks => last.status = 404
          /\ (last.id \in DOMAIN tasks /\ tasks[last.id].userId # last.cred.sub)
                => last.status = 403
          /\ (last.id \in DOMAIN tasks /\ tasks[last.id].userId = last.cred.sub)
                => (last.status = 200 /\ TaskRow(last.body) = tasks[last.id])

(* a caller asked for a stored task of another user and was answered Forbidden *)
C1_Witness ==
    /\ last.op = "GET /tasks/:id"
    /\ last.svc = "TasksService.findOne"
    /\ last.id \in DOMAIN tasks
    /\ tasks[last.id].userId # last.cred.sub
    /\ last.status = 403

(* C2: TasksService.remove(id, ownerId) deletes a task only for its owner:  *)
(* NotFound when the id is not stored, Forbidden when the caller is not the *)
(* owner, and in both cases the task table is unchanged; on success exactly *)
(* the row of that id is deleted and returned, every other row unchanged.   *)
C2_RemoveOnlyByOwner ==
    [][(last'.op = "DELETE /tasks/:id" /\ last'.svc = "TasksService.remove") =>
          LET id == last'.id
              ownerId == last'.cred.sub
          IN  /\ id \notin DOMAIN tasks =>
                    (last'.status = 404 /\ tasks' = tasks)
              /\ (id \in DOMAIN tasks /\ tasks[id].userId # ownerId) =>
                    (last'.status = 403 /\ tasks' = tasks)
              /\ (id \in DOMAIN tasks /\ tasks[id].userId = ownerId) =>
                    /\ last'.status = 200
                    /\ TaskRow(last'.body) = tasks[id]
                    /\ DOMAIN tasks' = (DOMAIN tasks) \ {id}
                    /\ \A k \in DOMAIN tasks' : tasks'[k] = tasks[k]
              /\ last'.status \in {200, 403, 404}
      ]_vars

(* the owner deleted one of two stored tasks; the other is still stored *)
C2_Witness ==
    /\ last.op = "DELETE /tasks/:id"
    /\ last.status = 200
    /\ last.id \notin DOMAIN tasks
    /\ \E k \in DOMAIN tasks : tasks[k].userId # last.cred.sub

(* C3: TasksService.findAll(ownerId) returns exactly the stored tasks whose *)
(* userId is ownerId: none of another user, none of the owner missing.      *)
C3_FindAllExactlyOwn ==
    /\ \A ownerId \in UserIds :
          {TaskRow(t) : t \in TasksService_findAll(ownerId).body}
              = {tasks[k] : k \in {i \in DOMAIN tasks : tasks[i].userId = ownerId}}
    /\ (last.op = "GET /tasks" /\ last.svc = "TasksService.findAll") =>
          /\ last.status = 200
          /\ \A t \in last.body : t.userId = last.cred.sub
          /\ \A k \in DOMAIN tasks :
                tasks[k].userId = last.cred.sub => \E t \in last.body : TaskRow(t) = tasks[k]

(* a caller listed their tasks while another user's task was stored *)
C3_Witness ==
    /\ last.op = "GET /tasks"
    /\ last.svc = "TasksService.findAll"
    /\ last.body # {}
    /\ \E k \in DOMAIN tasks : tasks[k].userId # last.cred.sub

TasksRoutes == {"POST /tasks", "GET /tasks", "GET /tasks/:id", "DELETE /tasks/:id"}

IssuedToken(cred) == cred.kind = "bearer" /\ cred.sub \in tokens

(* C4: every Tasks route is behind the guard: a request whose bearer        *)
(* credential is missing, malformed or invalid is answered 401 and no       *)
(* TasksService operation is invoked for it.                                *)
C4_TasksRoutesGuarded ==
    [][(last'.op \in TasksRoutes /\ ~IssuedToken(last'.cred)) =>
          /\ last'.status = 401
          /\ last'.svc = "none"
          /\ UNCHANGED <<users, tasks, userSeq, taskSeq, tokens>>
      ]_vars

(* a forged token naming the owner of a stored task was turned away *)
C4_Witness ==
    /\ last.op \in TasksRoutes
    /\ last.cred.kind = "invalid"
    /\ \E k \in DOMAIN tasks : tasks[k].userId = last.cred.sub
    /\ last.status = 401

----------------------------------------------------------------------------
(* Properties of the Users routes, under SpecUsers *)

(* every password that can be submitted, valid or not *)
SubmittedPasswords == Plaintexts \cup {ShortPass, ""}

EmailTaken(email) == \E k \in DOMAIN users : users[k].email = email

(* C5: for every valid creation input, UsersService.create persists a User  *)
(* whose stored password is not the submitted plaintext and for which       *)
(* PasswordService.compare(plaintext, stored) is true.  (The save succeeds  *)
(* whenever hashing did, the email is free and the generated id is unused.) *)
C5_CreateStoresMatchingHash ==
    [][(last'.op = "POST /users" /\ last'.svc = "UsersService.create") =>
          /\ ("id" \notin DOMAIN last'.dto /\ ~EmailTaken(last'.dto.email)
                  /\ userSeq \notin DOMAIN users /\ last'.body # HashingError.body)
                => last'.status = 201
          /\ last'.status = 201 =>
                /\ last'.body.id \in DOMAIN users'
                /\ users'[last'.body.id] = last'.body
                /\ users'[last'.body.id].email = last'.dto.email
                /\ users'[last'.body.id].password # last'.dto.password
                /\ PasswordService_compare(last'.dto.password,
                                           users'[last'.body.id].password)
      ]_vars

(* a user was registered and the stored password is a hash of the plaintext *)
C5_Witness ==
    /\ last.op = "POST /users"
    /\ last.status = 201
    /\ last.body.id \in DOMAIN users
    /\ users[last.body.id].password \in {BcryptHash(last.dto.password, s) : s \in Salts}

(* C6: after any sequence of create and update calls, with a password       *)
(* present in the partial or not, no stored password is a plaintext that    *)
(* was submitted: every stored password is a bcrypt hash.                   *)
C6_NoStoredPlaintext ==
    \A k \in DOMAIN users :
        /\ users[k].password \notin SubmittedPasswords
        /\ \E p \in SubmittedPasswords : PasswordService_compare(p, users[k].password)

(* an update that carried a password changed the stored hash *)
C6_Witness ==
    /\ last.op = "PATCH /users/:id"
    /\ last.status = 200
    /\ "password" \in DOMAIN last.dto
    /\ last.body.id \in DOMAIN users
    /\ PasswordService_compare(last.dto.password, users[last.body.id].password)

UserBody(body) == "password" \notin DOMAIN body

(* C8: no response that carries a User includes the password field, hash or *)
(* plaintext: the results of user create, findAll, findOne, update, remove  *)
(* and the Task results that embed the owner.                               *)
C8_NoPasswordInResponse ==
    /\ (last.op \in {"POST /users", "GET /users/:id", "PATCH /users/:id",
                     "DELETE /users/:id"} /\ last.svc # "none")
            => UserBody(last.body)
    /\ last.op = "GET /users" => \A u \in last.body : UserBody(u)
    /\ (last.op \in {"GET /tasks/:id", "DELETE /tasks/:id"} /\ last.status = 200)
            => UserBody(last.body.user)
    /\ (last.op = "GET /tasks" /\ last.status = 200)
            => \A t \in last.body : UserBody(t.user)

(* C9: for an id with no stored User, findOne, update and remove each fail  *)
(* with NotFound and leave the user table as it was.                        *)
C9_MissingUserNotFound ==
    [][(/\ last'.op \in {"GET /users/:id", "PATCH /users/:id", "DELETE /users/:id"}
        /\ last'.svc # "none"
        /\ last'.id \notin DOMAIN users) =>
          /\ last'.status = 404
          /\ users' = users
          /\ userSeq' = userSeq
      ]_vars

(* an update carrying a password named an id that is not stored *)
C9_Witness ==
    /\ last.op = "PATCH /users/:id"
    /\ last.svc = "UsersService.update"
    /\ "password" \in DOMAIN last.dto
    /\ last.status = 404
    /\ last.id \notin DOMAIN users
    /\ DOMAIN users # {}

----------------------------------------------------------------------------
(* Properties of the Tasks routes, under Spec (continued) *)

(* C10: TasksService.create(ownerId, input) resolves the owner first: with  *)
(* no stored User of that id it fails with NotFound and persists nothing;   *)
(* otherwise the Task it persists and returns has userId = ownerId and the  *)
(* title and description of the input, and no other row is written.         *)
C10_CreateResolvesOwner ==
    [][(last'.op = "POST /tasks" /\ last'.svc = "TasksService.create") =>
          LET ownerId == last'.cred.sub
          IN  /\ ownerId \notin DOMAIN users =>
                    (last'.status = 404 /\ tasks' = tasks /\ taskSeq' = taskSeq)
              /\ ownerId \in DOMAIN users =>
                    /\ last'.status \in {201, 500}
                    /\ ("id" \notin DOMAIN last'.dto /\ taskSeq \notin DOMAIN tasks)
                            => last'.status = 201
                    /\ last'.status = 500 => tasks' = tasks
              /\ last'.status = 201 =>
                    /\ last'.body.id \in DOMAIN tasks'
                    /\ tasks'[last'.body.id] = last'.body
                    /\ last'.body.userId = ownerId
                    /\ last'.body.title = last'.dto.title
                    /\ last'.body.description = last'.dto.description
                    /\ \A k \in DOMAIN tasks : k # last'.body.id =>
                            (k \in DOMAIN tasks' /\ tasks'[k] = tasks[k])
                    /\ DOMAIN tasks' = DOMAIN tasks \cup {last'.body.id}
      ]_vars

(* a caller whose User row is gone tried to create a task *)
C10_Witness ==
    /\ last.op = "POST /tasks"
    /\ last.svc = "TasksService.create"
    /\ last.status = 404
    /\ last.cred.sub \notin DOMAIN users
    /\ DOMAIN users # {}

----------------------------------------------------------------------------
(* Properties of overlapping requests, under SpecOverlap *)

(* the tasks a step writes: inserted, or stored with other values *)
TasksWritten ==
    {k \in DOMAIN tasks' : k \notin DOMAIN tasks \/ tasks'[k] # tasks[k]}

(* C11: in every interleaving, at the step where TasksService.create        *)
(* persists a Task a User with id = userId is stored, even when             *)
(* UsersService.remove of that user ran between create's owner lookup and   *)
(* its save.                                                                *)
C11_OwnerStoredAtCreation ==
    [][\A k \in TasksWritten : tasks'[k].userId \in DOMAIN users']_vars

(* the save of a create whose owner was removed since the lookup has been   *)
(* rejected, and another create has persisted its task                      *)
C11_Witness ==
    /\ last.op = "POST /tasks"
    /\ last.svc = "TasksService.create"
    /\ last.status = 500
    /\ last.cred.sub \notin DOMAIN users
    /\ tasks # Empty

(* C13: User deletion is immediate and permanent: once                      *)
(* UsersService.remove(id) has succeeded, findOne(id) fails with NotFound   *)
(* in every later state, whatever requests follow or were in flight; here   *)
(* for the state that follows the next step: the id removed by the last     *)
(* request is not stored again by the request that ends next, an update     *)
(* that loaded the user before the remove and saves after it included       *)
(* (findOne(id) fails exactly when no row has that id).                     *)
C13_RemovedStaysRemoved ==
    [][(last.op = "DELETE /users/:id" /\ last.status = 200)
          => last.id \notin DOMAIN users']_vars

(* C25: TasksService.remove is a check-then-act pair (findOne, then the     *)
(* delete) between which other requests may run; in every interleaving a    *)
(* remove reports success (returns the deleted Task) only for a Task that   *)
(* was still stored when its delete step ran, so of two concurrent          *)
(* remove(id, ownerId) calls for the same Task at most one reports success. *)
C25_RemoveSucceedsOnce ==
    [][\A slot \in Slots :
          (/\ inflight[slot].op = "TasksService.remove"
           /\ inflight'[slot] = Idle
           /\ last'.status = 200) =>
              (/\ inflight[slot].id \in DOMAIN tasks
               /\ inflight[slot].id \notin DOMAIN tasks')]_vars

----------------------------------------------------------------------------
(* Further properties of the Tasks routes, under Spec *)

(* C12: a stored Task is immutable: from the state in which it is created   *)
(* until the state in which it is removed, whatever the requests and the    *)
(* callers, its userId, title and description never change.                 *)
C12_StoredTaskImmutable ==
    [][\A k \in DOMAIN tasks \cap DOMAIN tasks' :
          /\ tasks'[k].userId = tasks[k].userId
          /\ tasks'[k].title = tasks[k].title
          /\ tasks'[k].description = tasks[k].description]_vars

(* C17: after TasksService.create(o, {title, description}) succeeds on a    *)
(* store that holds no other Task of owner o, findAll(o) contains exactly   *)
(* that Task, with that title and description, and findAll(o2) of any other *)
(* owner o2 does not contain it.                                            *)
C17_CreateThenFindAll ==
    (last.op = "POST /tasks" /\ last.status = 201) =>
        LET o       == last.cred.sub
            created == last.body.id
        IN  (\A k \in DOMAIN tasks : k # created => tasks[k].userId # o) =>
                /\ created \in DOMAIN tasks
                /\ {TaskRow(t) : t \in TasksService_findAll(o).body} = {tasks[created]}
                /\ tasks[created].userId = o
                /\ tasks[created].title = last.dto.title
                /\ tasks[created].description = last.dto.description
                /\ \A o2 \in UserIds \ {o} :
                      \A t \in TasksService_findAll(o2).body : t.id # created

(* a caller created their only task while another user's task is stored and *)
(* the body named that other user as userId                                 *)
C17_Witness ==
    /\ last.op = "POST /tasks"
    /\ last.status = 201
    /\ "userId" \in DOMAIN last.dto
    /\ last.dto.userId # last.cred.sub
    /\ \A k \in DOMAIN tasks : k # last.body.id => tasks[k].userId # last.cred.sub
    /\ \E k \in DOMAIN tasks : k # last.body.id

(* C18: TasksService.findOne changes no stored User or Task, and two calls  *)
(* findOne(id, ownerId) with no mutation in between return equal snapshots  *)
(* of the Task, or fail with the same error class.                          *)
C18_FindOneReadOnly ==
    [][/\ \A id \in TaskIds, ownerId \in UserIds :
             /\ TasksService_findOne(id, ownerId).tasks = tasks
             /\ TasksService_findOne(id, ownerId).taskSeq = taskSeq
       /\ last'.op = "GET /tasks/:id" =>
             UNCHANGED <<users, tasks, userSeq, taskSeq, tokens>>
       /\ (/\ last.op = "GET /tasks/:id" /\ last.svc = "TasksService.findOne"
           /\ last'.op = "GET /tasks/:id" /\ last'.svc = "TasksService.findOne"
           /\ last'.id = last.id
           /\ last'.cred = last.cred) =>
             (last'.status = last.status /\ last'.body = last.body)
      ]_vars

(* a caller read their own task while another user and another task exist *)
C18_Witness ==
    /\ last.op = "GET /tasks/:id"
    /\ last.svc = "TasksService.findOne"
    /\ last.status = 200
    /\ last.id \in DOMAIN tasks
    /\ TaskRow(last.body) = tasks[last.id]
    /\ \E k \in DOMAIN tasks : k # last.id

(* a POST /users body with a required field missing, a malformed email or  *)
(* a password shorter than 6 characters                                     *)
MalformedUserBody(dto) ==
    \/ \E f \in UserDtoFields : f \notin DOMAIN dto
    \/ "email" \in DOMAIN dto /\ dto.email = BadEmail
    \/ "password" \in DOMAIN dto /\ Len(dto.password) < MinPasswordLength

(* a POST /tasks body whose title or description is missing, empty or not a *)
(* string                                                                   *)
MalformedTaskBody(dto) ==
    \E f \in {"title", "description"} :
        f \notin DOMAIN dto \/ dto[f] = "" \/ dto[f] = JsonNumber

(* C19: a POST /users body with a missing required field, a malformed email *)
(* or a password shorter than 6 characters, and a POST /tasks body (of an   *)
(* authenticated caller) whose title or description is missing, empty or    *)
(* not a string, is rejected with 400: no service operation is invoked and  *)
(* no User or Task is persisted.                                            *)
C19_MalformedBodyRejected ==
    [][((\/ last'.op = "POST /users" /\ MalformedUserBody(last'.dto)
         \/ /\ last'.op = "POST /tasks"
            /\ IssuedToken(last'.cred)
            /\ MalformedTaskBody(last'.dto)) =>
          /\ last'.status = 400
          /\ last'.svc = "none"
          /\ UNCHANGED <<users, tasks, userSeq, taskSeq>>)
      ]_vars

(* a logged-in caller posted a task whose description is a number, while a  *)
(* task is stored                                                           *)
C19_Witness ==
    /\ last.op = "POST /tasks"
    /\ last.status = 400
    /\ IssuedToken(last.cred)
    /\ last.dto = [title |-> "Buy milk", description |-> JsonNumber]
    /\ tasks # Empty

C22_ControllerPassesCallerId ==
    [][(last'.op \in TasksRoutes /\ last'.svc # "none") =>
          LET caller == AuthGuard(last'.cred).user.id
              r == CASE last'.op = "POST /tasks" ->
                            Spread(TasksService_create(caller, last'.dto),
                                   [svc |-> "TasksService.create"])
                     [] last'.op = "GET /tasks" ->
                            Spread(TasksService_findAll(caller),
                                   [svc |-> "TasksService.findAll"])
                     [] last'.op = "GET /tasks/:id" ->
                            Spread(TasksService_findOne(last'.id, caller),
                                   [svc |-> "TasksService.findOne"])
                     [] last'.op = "DELETE /tasks/:id" ->
                            Spread(TasksService_remove(last'.id, caller),
                                   [svc |-> "TasksService.remove"])
          IN  /\ AuthGuard(last'.cred).ok
              /\ last'.svc = r.svc
              /\ last'.body = r.body
              /\ last'.status =
                    IF last'.op = "POST /tasks" /\ r.status = 200 THEN 201 ELSE r.status
              /\ tasks' = r.tasks
              /\ taskSeq' = r.taskSeq
              /\ UNCHANGED <<users, userSeq, tokens>>
      ]_vars

(* a caller posted a task whose body names another user as userId, and the  *)
(* task was stored under the caller's id                                    *)
C22_Witness ==
    /\ last.op = "POST /tasks"
    /\ last.svc = "TasksService.create"
    /\ last.status = 201
    /\ "userId" \in DOMAIN last.dto
    /\ last.dto.userId \in DOMAIN users \ {last.cred.sub}
    /\ tasks[last.body.id].userId = AuthGuard(last.cred).user.id

(* C23: TasksService.create always adds a new Task with a fresh generated   *)
(* id and never modifies or replaces a stored Task, whatever fields the     *)
(* input carries besides title and description (an id, a userId): the       *)
(* stored userId is the resolved owner's id, and every Task stored before   *)
(* keeps its id, userId, title and description.                             *)
C23_CreateAddsFreshTask ==
    [][(last'.op = "POST /tasks" /\ last'.svc = "TasksService.create"
            /\ last'.status = 201) =>
          /\ last'.body.id \notin DOMAIN tasks
          /\ last'.body.id \in DOMAIN tasks'
          /\ tasks'[last'.body.id].userId = last'.cred.sub
          /\ \A k \in DOMAIN tasks : k \in DOMAIN tasks' /\ tasks'[k] = tasks[k]
      ]_vars

(* C26: no operation retries or compensates: when a persistence call fails  *)
(* inside a Users or Tasks service operation, the error reaches the caller  *)
(* at once (500), the operation issues no further persistence call (a       *)
(* rejected insert has consumed one generated id, not more), and for a      *)
(* read-then-write operation (update, remove, task create) whose write      *)
(* fails the stored Users and Tasks are the same as before the operation.   *)
C26_FailurePropagates ==
    [][/\ last'.status = 500 => (users' = users /\ tasks' = tasks)
       /\ (/\ last'.op = "POST /tasks" /\ last'.svc = "TasksService.create"
           /\ last'.cred.sub \in DOMAIN users
           /\ "id" \notin DOMAIN last'.dto
           /\ taskSeq \in DOMAIN tasks) =>
             (last'.status = 500 /\ taskSeq' = taskSeq + 1)
       /\ (/\ last'.op = "PATCH /users/:id" /\ last'.svc = "UsersService.update"
           /\ last'.id \in DOMAIN users
           /\ "email" \in DOMAIN last'.dto
           /\ \E k \in DOMAIN users : k # last'.id /\ users[k].email = last'.dto.email) =>
             (last'.status = 500 /\ userSeq' = userSeq)
       /\ (/\ last'.op = "DELETE /users/:id"
           /\ last'.id \in DOMAIN users
           /\ \E k \in DOMAIN tasks : tasks[k].userId = last'.id) =>
             (last'.status = 500 /\ userSeq' = userSeq)
       /\ (/\ last'.op = "POST /users" /\ last'.svc = "UsersService.create"
           /\ EmailTaken(last'.dto.email)) =>
             (last'.status = 500 /\ userSeq' = userSeq + 1)
      ]_vars

(* the save of a task create was rejected for a stored owner, while a task  *)
(* is stored                                                                *)
C26_Witness ==
    /\ last.op = "POST /tasks"
    /\ last.svc = "TasksService.create"
    /\ last.status = 500
    /\ last.cred.sub \in DOMAIN users
    /\ "id" \notin DOMAIN last.dto
    /\ tasks # Empty

(* C27: TasksService.findAll(ownerId) never checks that the owner exists:  *)
(* for an ownerId with no stored User it returns the (possibly empty) list  *)
(* of the Tasks that carry that userId, where create for the same ownerId   *)
(* fails with NotFound; so GET /tasks of a token holder whose User is gone  *)
(* answers 200 and POST /tasks of the same caller answers 404.              *)
C27_FindAllSkipsOwnerCheck ==
    /\ \A ownerId \in UserIds \ DOMAIN users :
          /\ TasksService_findAll(ownerId).status = 200
          /\ TasksService_findAll(ownerId).body =
                {WithUser(tasks[k]) : k \in {i \in DOMAIN tasks : tasks[i].userId = ownerId}}
          /\ \A dto \in GoodCreateTaskDtos : TasksService_create(ownerId, dto).status = 404
    /\ (/\ last.op = "GET /tasks" /\ last.svc = "TasksService.findAll"
        /\ last.cred.sub \notin DOMAIN users) =>
          (last.status = 200 /\ \A t \in last.body : t.userId = last.cred.sub)
    /\ (/\ last.op = "POST /tasks" /\ last.svc = "TasksService.create"
        /\ last.cred.sub \notin DOMAIN users) => last.status = 404

(* GET /tasks was answered for a caller whose User is no longer stored *)
C27_Witness ==
    /\ last.op = "GET /tasks"
    /\ last.svc = "TasksService.findAll"
    /\ last.status = 200
    /\ last.cred.sub \notin DOMAIN users

(* C28: the logging interceptor is transparent and ordered: for every       *)
(* request that reaches it (every request the guard of its route lets       *)
(* through) it writes the request line first, then exactly one more line,   *)
(* a Success line (logger.log) when the handler emitted                     *)
(* a value, or an Error line (logger.error) when the handler or the         *)
(* validation pipe raised an error, never both; and the caller receives the *)
(* handler's value or error as it is.  A request its route's guard turns    *)
(* away is answered 401 before the interceptor runs and writes no line.     *)
C28_InterceptorTransparent ==
    [][IF last'.op \in GuardedRoutes /\ ~CanActivate(last'.op, last'.cred)
       THEN log' = <<>> /\ last'.status = 401
       ELSE /\ Len(log') = 2
            /\ log'[1] = [level |-> "log", kind |-> "Request",
                          route |-> last'.op, body |-> last'.dto]
            /\ log'[2].route = last'.op
            /\ log'[2].kind \in {"Success", "Error"}
            /\ log'[2].kind = "Success" <=>
                  (last'.status < 400 /\ log'[2].level = "log")
            /\ log'[2].kind = "Error" <=>
                  (last'.status >= 400 /\ log'[2].level = "error")
            /\ last'.op = "GET /users/:id" =>
                  /\ last'.status = UsersService_findOne(last'.id).status
                  /\ last'.body = UsersService_findOne(last'.id).body
            /\ last'.op = "GET /tasks" =>
                  /\ last'.status = 200
                  /\ last'.body = TasksService_findAll(last'.cred.sub).body
            /\ (last'.op = "POST /users" /\ ~ValidCreateUserDto(last'.dto)) =>
                  last'.status = 400
      ]_vars

(* a request whose handler raised an error went through the interceptor:    *)
(* request line, then the Error line, and the error answered                *)
C28_Witness ==
    /\ last.op = "GET /users/:id"
    /\ last.status = 404
    /\ Len(log) = 2
    /\ log[1].kind = "Request"
    /\ log[2].kind = "Error"

----------------------------------------------------------------------------
(* Further properties of the Users routes, under SpecUsers *)

(* C14: UsersService.update(id, partial) on an existing User merges: every  *)
(* field present in partial takes the new value (password as its hash),     *)
(* every field of that User absent from partial keeps its stored value,     *)
(* the stored hash is unchanged when partial has no password, and the       *)
(* returned entity equals the stored one.  The update succeeds unless the   *)
(* new email is another user's or hashing failed, and then writes nothing.  *)
C14_UpdateMerges ==
    [][(/\ last'.op = "PATCH /users/:id"
        /\ last'.svc = "UsersService.update"
        /\ last'.id \in DOMAIN users
        /\ DOMAIN last'.dto \subseteq UserDtoFields) =>
          LET id  == last'.id
              dto == last'.dto
          IN  /\ last'.status \in {200, 500}
              /\ last'.status = 500 =>
                    /\ users' = users
                    /\ \/ last'.body = HashingError.body
                       \/ "email" \in DOMAIN dto /\
                            \E k \in DOMAIN users : k # id /\ users[k].email = dto.email
              /\ last'.status = 200 =>
                    /\ DOMAIN users' = DOMAIN users
                    /\ \A f \in {"email", "firstName", "lastName"} :
                          users'[id][f] = IF f \in DOMAIN dto THEN dto[f] ELSE users[id][f]
                    /\ "password" \in DOMAIN dto =>
                          /\ users'[id].password # dto.password
                          /\ PasswordService_compare(dto.password, users'[id].password)
                    /\ "password" \notin DOMAIN dto =>
                          users'[id].password = users[id].password
                    /\ last'.body = users'[id]
      ]_vars

(* an update that carried only a first name has been merged and answered    *)
(* with the stored row                                                      *)
C14_Witness ==
    /\ last.op = "PATCH /users/:id"
    /\ last.status = 200
    /\ last.dto = [firstName |-> "Bob"]
    /\ last.id \in DOMAIN users
    /\ users[last.id].firstName = "Bob"
    /\ users[last.id].email \in Emails
    /\ last.body = users[last.id]

(* C15: UsersService.findByEmail(email) queries the store with exactly that *)
(* email and returns the User the store holds for it; when no User has that *)
(* email it fails with NotFound (the message mentions the email) instead of *)
(* returning undefined or null.                                             *)
C15_FindByEmail ==
    /\ \A email \in Emails \cup {BadEmail} :
          LET r == UsersService_findByEmail(email)
          IN  IF EmailTaken(email)
              THEN /\ r.status = 200
                   /\ r.body.id \in DOMAIN users
                   /\ r.body = users[r.body.id]
                   /\ r.body.email = email
              ELSE /\ r.status = 404
                   /\ r.body = [message |-> "User with email " \o email \o " not found"]
    /\ last.op = "UsersService.findByEmail" =>
          /\ last.status = UsersService_findByEmail(last.dto.email).status
          /\ last.body = UsersService_findByEmail(last.dto.email).body
          /\ last.body # NoBody

(* findByEmail was called with an email that no stored User has, while      *)
(* another email is stored                                                  *)
C15_Witness ==
    /\ last.op = "UsersService.findByEmail"
    /\ last.status = 404
    /\ users # Empty
    /\ ~EmailTaken(last.dto.email)

(* C16: when UsersService.create with email e returns the generated id i,   *)
(* findByEmail(e) issued immediately afterwards, with no mutation in        *)
(* between, returns the User with id i.                                     *)
C16_CreateThenFindByEmail ==
    (last.op = "POST /users" /\ last.status = 201) =>
        LET found == UsersService_findByEmail(last.dto.email)
        IN  /\ found.status = 200
            /\ found.body.id = last.body.id
            /\ found.body = users[last.body.id]

(* a user was registered under a generated id while another user is stored *)
C16_Witness ==
    /\ last.op = "POST /users"
    /\ last.status = 201
    /\ "id" \notin DOMAIN last.dto
    /\ last.body.id \in DOMAIN users
    /\ \E k \in DOMAIN users : k # last.body.id

(* C20: a failure of the hashing primitive surfaces as an internal error    *)
(* (500), never as a validation or NotFound error, and leaves the User      *)
(* store unchanged: UsersService.create persists no User and update         *)
(* persists no change when PasswordService.hash fails.                      *)
C20_HashFailureIs500 ==
    /\ \A dto \in GoodCreateUserDtos :
          LET r == UsersService_create(dto, BcryptFault)
          IN  r.status = 500 /\ r.users = users /\ r.userSeq = userSeq
    /\ \A id \in DOMAIN users, dto \in [password : Plaintexts] :
          LET r == UsersService_update(id, dto, BcryptFault)
          IN  r.status = 500 /\ r.users = users /\ r.userSeq = userSeq
    /\ (/\ last.op \in {"POST /users", "PATCH /users/:id"}
        /\ last.body = HashingError.body) => last.status = 500

(* hashing failed during the update of a stored user's password *)
C20_Witness ==
    /\ last.op = "PATCH /users/:id"
    /\ last.svc = "UsersService.update"
    /\ last.id \in DOMAIN users
    /\ "password" \in DOMAIN last.dto
    /\ last.body = HashingError.body
    /\ last.status = 500

(* C24: UsersService.update(id, partial) changes only the User with the     *)
(* given id: whatever fields partial carries, every other stored User is    *)
(* unchanged, the number of stored Users is unchanged, and the updated      *)
(* entity still has id = id.                                                *)
C24_UpdateTouchesOnlyItsUser ==
    [][(last'.op = "PATCH /users/:id" /\ last'.svc = "UsersService.update"
            /\ last'.status = 200) =>
          /\ \A k \in DOMAIN users : k # last'.id =>
                (k \in DOMAIN users' /\ users'[k] = users[k])
          /\ Cardinality(DOMAIN users') = Cardinality(DOMAIN users)
          /\ last'.body.id = last'.id
      ]_vars


====
